---------------------------- MODULE Spec2Model ----------------------------
(***************************************************************************)
(* A model of the TTS building blocks of                                   *)
(* nemo/collections/tts/modules/submodules.py.                             *)
(*                                                                         *)
(* Each class is modelled as a state machine over its own fields, with one *)
(* action per method call.  Tensors are nested sequences indexed from 1    *)
(* (batch, channel, time).  Arithmetic is exact: a rational tensor is a    *)
(* record [n |-> integer entries, d |-> common positive denominator] kept  *)
(* in lowest terms, so equal tensors are equal records.                    *)
(***************************************************************************)
EXTENDS Integers, Sequences, FiniteSets, TLC

VARIABLES
    \* Invertible1x1Conv
    conv_weight,    \* self.conv.weight, squeezed to a c x c matrix
    inv_conv,       \* self.inv_conv: None or the weight of the inverse conv
    n_updates,      \* number of updates of conv.weight since construction
    ret,            \* what the call made by the last step returned
    \* WaveNet
    wn,             \* the module: n_layers, n_channels and its layers
    wn_updated,     \* whether a parameter update followed construction
    wn_pc,          \* "idle", or "loop" inside forward
    wn_in,          \* forward_input of the call in progress or last made
    wn_i,           \* the loop index i of forward
    wn_audio,       \* the local audio of forward
    wn_spect,       \* the local spect of forward
    wn_output,      \* the local output of forward
    wn_ret,         \* what the last call of forward returned
    \* Attention
    att_in,         \* the arguments of the last call of forward
    att_ret,        \* what the last call of forward returned
    \* PartialConv1d
    pc_layer,       \* kernel_size, stride, padding, dilation, weight, bias
    partial,        \* self.partial
    last_size,      \* self.last_size
    update_mask,    \* the buffer self.update_mask
    mask_ratio,     \* the buffer self.mask_ratio
    pc_phase,       \* "idle", or "returned" right after a call
    pc_in,          \* the arguments of the call that returned
    pc_ret,         \* what the call returned
    \* StyleAttention
    sa,             \* the module: sizes, tokens and the three linear layers
    sa_in,          \* the arguments of the call of forward
    sa_ret,         \* what the call returned
    \* WeightedSpeakerEmbedding
    wse,            \* the module: the table given, speaker_list, and the
                    \* parameter pretrained_embedding with num_embeddings
    embedding_weight,   \* the parameter embedding_weight, of shape (1, N)
    wse_phase,      \* "idle", or "returned" right after a call
    wse_in,         \* the speaker tensor of the call that returned
    wse_ret         \* what the call returned

invVars == <<conv_weight, inv_conv, n_updates, ret>>

wnVars == <<wn, wn_updated, wn_pc, wn_in, wn_i, wn_audio, wn_spect, wn_output,
            wn_ret>>

attVars == <<att_in, att_ret>>

pcVars == <<pc_layer, partial, last_size, update_mask, mask_ratio, pc_phase,
            pc_in, pc_ret>>

saVars == <<sa, sa_in, sa_ret>>

wseVars == <<wse, embedding_weight, wse_phase, wse_in, wse_ret>>

vars == <<invVars, wnVars, attVars, pcVars, saVars, wseVars>>

\* what the calls on one class leave alone: the fields of the other classes
notInvVars == <<wnVars, attVars, pcVars, saVars, wseVars>>
notWNVars == <<invVars, attVars, pcVars, saVars, wseVars>>
notAttVars == <<invVars, wnVars, pcVars, saVars, wseVars>>
notPCVars == <<invVars, wnVars, attVars, saVars, wseVars>>
notWSEVars == <<invVars, wnVars, attVars, pcVars, saVars>>
notSAVars == <<invVars, wnVars, attVars, pcVars, wseVars>>

None == [kind |-> "None"]

\* the value of ret when the last step was not a call
NoCall == [op |-> "none"]

-----------------------------------------------------------------------------
(* Bounds of the model *)

\* largest batch size of an input tensor
MaxBatch == 2
\* largest time length (n_of_groups) of an input tensor
MaxTime == 2
\* largest number of updates of conv.weight after construction
MaxUpdates == 1
\* largest n_layers of a WaveNet
MaxLayers == 3
\* largest kernel_size of a WaveNet
MaxKernel == 3
\* largest n_in_channels of a WaveNet
MaxInChannels == 2
\* largest n_channels of a WaveNet
MaxChannels == 2
\* largest time length of the audio given to a WaveNet
MaxAudioLen == 4
\* largest time length of the memory given to an Attention
MaxMemLen == 3
\* largest alignment energy, in units of ln 2
MaxEnergy == 1
\* largest time length of the input of a PartialConv1d
MaxConvLen == 3
\* largest kernel_size, stride, padding and dilation of a PartialConv1d
MaxConvKernel == 3
MaxStride == 2
MaxPadding == 1
MaxDilation == 2
\* largest gru_hidden, gst_size, n_style_attn_head and n_style_token of a
\* StyleAttention
MaxHidden == 1
MaxGst == 4
MaxHeads == 2
MaxTokens == 2
\* largest number of rows of the embedding table and largest length of
\* speaker_list of a WeightedSpeakerEmbedding
MaxSpeakers == 3
MaxListLen == 2

-----------------------------------------------------------------------------
(* Exact arithmetic *)

Abs(x) == IF x < 0 THEN -x ELSE x

RECURSIVE GcdNat(_, _)
GcdNat(a, b) == IF b = 0 THEN a ELSE GcdNat(b, a % b)

Gcd(a, b) == GcdNat(Abs(a), Abs(b))

RECURSIVE GcdSeq(_)
GcdSeq(s) == IF s = <<>> THEN 0 ELSE Gcd(Head(s), GcdSeq(Tail(s)))

RECURSIVE SumSeq(_)
SumSeq(s) == IF s = <<>> THEN 0 ELSE Head(s) + SumSeq(Tail(s))

\* a function on 1..n as the sequence of its values
AsSeq(f) == <<>> \o f

\* a tensor built entry by entry: e(b, c, t) for b in 1..B, c in 1..C, t in 1..T
MakeTensor(B, C, T, e(_, _, _)) ==
    AsSeq([b \in 1..B |-> AsSeq([c \in 1..C |-> AsSeq([t \in 1..T |-> e(b, c, t)])])])

RECURSIVE Pow(_, _)
Pow(x, k) == IF k = 0 THEN 1 ELSE x * Pow(x, k - 1)

\* the entries of a matrix (two levels) and of a tensor (three levels)
RECURSIVE Flat2(_)
Flat2(m) == IF m = <<>> THEN <<>> ELSE Head(m) \o Flat2(Tail(m))

RECURSIVE Flat3(_)
Flat3(t) == IF t = <<>> THEN <<>> ELSE Flat2(Head(t)) \o Flat3(Tail(t))

\* entries/d with numerators and denominator divided by g
DivMat(m, d, g) ==
    [n |-> AsSeq([i \in DOMAIN m |-> AsSeq([j \in DOMAIN m[i] |-> m[i][j] \div g])]),
     d |-> d \div g]

DivTen(t, d, g) ==
    [n |-> AsSeq([b \in DOMAIN t |-> AsSeq([c \in DOMAIN t[b] |->
                    AsSeq([k \in DOMAIN t[b][c] |-> t[b][c][k] \div g])])]),
     d |-> d \div g]

\* entries/d in lowest terms, for a matrix and for a tensor
NormMat(m, d) == DivMat(m, d, IF d = 1 THEN 1 ELSE Gcd(d, GcdSeq(Flat2(m))))

NormTen(t, d) == DivTen(t, d, IF d = 1 THEN 1 ELSE Gcd(d, GcdSeq(Flat3(t))))

-----------------------------------------------------------------------------
(* Invertible1x1Conv                                                       *)
(*                                                                         *)
(* The group size c is 2: conv.weight is a 2 x 2 matrix and the inputs     *)
(* have shape (batch_size, 2, n_of_groups).  A weight is a rational matrix *)
(* [n, d]; the casts .float() and .to(dtype) are exact here.               *)

Identity2 == <<<<1, 0>>, <<0, 1>>>>

MatMul2(a, b) ==
    [i \in 1..2 |-> [j \in 1..2 |-> a[i][1] * b[1][j] + a[i][2] * b[2][j]]]

Transpose2(m) == [i \in 1..2 |-> [j \in 1..2 |-> m[j][i]]]

\* torch.det of a 2 x 2 integer matrix
Det2(m) == m[1][1] * m[2][2] - m[1][2] * m[2][1]

Adj2(m) == <<<<m[2][2], -m[1][2]>>, <<-m[2][1], m[1][1]>>>>

\* torch.linalg.qr(...)[0] of a random matrix: an orthonormal matrix.  The
\* orthonormal matrices with integer entries are the signed permutations.
OrthonormalQ ==
    {m \in [1..2 -> [1..2 -> -1..1]] : MatMul2(m, Transpose2(m)) = Identity2}

\* "Ensure determinant is 1.0 not -1.0": the first column is negated
EnsureDetOne(m) ==
    IF Det2(m) < 0 THEN [i \in 1..2 |-> [j \in 1..2 |->
                            IF j = 1 THEN -m[i][j] ELSE m[i][j]]]
    ELSE m

\* Tensor.inverse() raises on a singular matrix
IsSingular(W) == Det2(W.n) = 0

\* a plausible slip: the weight is copied without being inverted
InverseSkipped(W) == W

\* the matrix k * m
ScaleMat(k, m) == AsSeq([i \in 1..2 |-> AsSeq([j \in 1..2 |-> k * m[i][j]])])

\* Tensor.inverse() of a non-singular matrix W = n/d: d * adj(n) / det(n)
Inverse(W) ==
    NormMat(ScaleMat((IF Det2(W.n) < 0 THEN -1 ELSE 1) * W.d, Adj2(W.n)),
            Abs(Det2(W.n)))

\* a real number ln(q) is kept as the positive rational q = [n, d]
\* torch.logdet: nan for a negative determinant, -inf for a singular matrix
logdet(W) ==
    LET dt == Det2(W.n)
        dd == W.d * W.d
        g  == Gcd(dt, dd)
    IN  IF dt < 0 THEN [kind |-> "nan"]
        ELSE IF dt = 0 THEN [kind |-> "-inf"]
        ELSE [kind |-> "ln", of |-> [n |-> dt \div g, d |-> dd \div g]]

\* a slip that forgets the factor
ScaleLogDropped(k, lv) == lv

\* k * lv for an integer k >= 1: k * ln(q) = ln(q^k)
ScaleLog(k, lv) ==
    IF lv.kind = "ln"
    THEN [kind |-> "ln", of |-> [n |-> Pow(lv.of.n, k), d |-> Pow(lv.of.d, k)]]
    ELSE lv

\* a slip that applies the transposed weight
Conv1x1Transposed(W, z) ==
    LET e(b, o, t) == W.n[1][o] * z.n[b][1][t] + W.n[2][o] * z.n[b][2][t]
    IN  NormTen(MakeTensor(Len(z.n), 2, Len(z.n[1][1]), e), W.d * z.d)

\* Conv1d(c, c, kernel_size=1, bias=False) with weight W applied to z:
\* out[b][o][t] = sum over i of W[o][i] * z[b][i][t]
Conv1x1(W, z) ==
    LET e(b, o, t) == W.n[o][1] * z.n[b][1][t] + W.n[o][2] * z.n[b][2][t]
    IN  NormTen(MakeTensor(Len(z.n), 2, Len(z.n[1][1]), e), W.d * z.d)

\* the weights torch.nn.Conv1d may be constructed with (its default random
\* initialisation draws every entry from (-1/sqrt(2), 1/sqrt(2)))
DefaultConvInit ==
    { [n |-> <<<<1, 0>>, <<0, 1>>>>, d |-> 2],
      [n |-> <<<<1, -1>>, <<1, 1>>>>, d |-> 2] }

Conv1d(w) == [kind |-> "Conv1d", weight |-> w]

RuntimeError == [kind |-> "RuntimeError"]

\* self.inv_conv after forward(z, reverse); w0 is the weight the new Conv1d
\* is constructed with, which stays when inverse() raises
ForwardInvConv(W, inv, reverse, w0) ==
    IF reverse /\ inv = None
    THEN IF IsSingular(W) THEN Conv1d(w0) ELSE Conv1d(Inverse(W))
    ELSE inv

\* what forward(z, reverse) returns
ForwardRet(W, inv, z, reverse, w0) ==
    IF reverse
    THEN IF inv = None /\ IsSingular(W)
         THEN RuntimeError
         ELSE [kind |-> "tensor",
               value |-> Conv1x1(ForwardInvConv(W, inv, reverse, w0).weight, z)]
    ELSE LET batch_size == Len(z.n)
             n_of_groups == Len(z.n[1][1])
         IN  [kind |-> "tuple",
              z |-> Conv1x1(W, z),
              log_det_W |-> ScaleLog(batch_size * n_of_groups, logdet(W))]

\* the tensor a call hands on to the next: the whole return of a reverse
\* call, element 0 of the pair of a forward call
TensorOf(r) == IF r.kind = "tuple" THEN r.z ELSE r.value

\* what the second of two calls returns, r1 and inv1 being the return of
\* the first and self.inv_conv after it
SecondRet(W, r1, inv1, reverse, w0) ==
    IF r1 = RuntimeError THEN r1
    ELSE ForwardRet(W, inv1, TensorOf(r1), reverse, w0)

\* the input tensors of the model: one of every shape (B, 2, T), its
\* entries varied over batch, channel and time
InputTensor(B, T) ==
    LET e(b, c, t) == IF c = 1 THEN t + b - 1 ELSE b - 2 * t
    IN  [n |-> MakeTensor(B, 2, T, e), d |-> 1]

Inputs == {InputTensor(B, T) : B \in 1..MaxBatch, T \in 1..MaxTime}

\* the fields of a class that a specification does not exercise
InvIdle ==
    /\ conv_weight = None
    /\ inv_conv = None
    /\ n_updates = 0
    /\ ret = NoCall

WNIdle ==
    /\ wn = None
    /\ wn_updated = FALSE
    /\ wn_pc = "idle"
    /\ wn_in = None
    /\ wn_i = 0
    /\ wn_audio = None
    /\ wn_spect = None
    /\ wn_output = None
    /\ wn_ret = NoCall

AttIdle ==
    /\ att_in = None
    /\ att_ret = NoCall

WSEIdle ==
    /\ wse = None
    /\ embedding_weight = <<>>
    /\ wse_phase = "idle"
    /\ wse_in = None
    /\ wse_ret = NoCall

SAIdle ==
    /\ sa = None
    /\ sa_in = None
    /\ sa_ret = NoCall

PCIdle ==
    /\ pc_layer = None
    /\ partial = TRUE
    /\ last_size = <<-1, -1, -1>>
    /\ update_mask = <<<<<<1>>>>>>
    /\ mask_ratio = <<<<<<[n |-> 1, d |-> 1]>>>>>>
    /\ pc_phase = "idle"
    /\ pc_in = None
    /\ pc_ret = NoCall

InitInv ==
    /\ WSEIdle
    /\ SAIdle
    /\ WNIdle
    /\ AttIdle
    /\ PCIdle
    /\ conv_weight \in {[n |-> EnsureDetOne(q), d |-> 1] : q \in OrthonormalQ}
    /\ inv_conv = None
    /\ n_updates = 0
    /\ ret = NoCall

\* forward(z, reverse)
Forward(z, reverse, w0) ==
    /\ inv_conv' = ForwardInvConv(conv_weight, inv_conv, reverse, w0)
    /\ ret' = [op |-> "forward", z |-> z, reverse |-> reverse,
               out |-> ForwardRet(conv_weight, inv_conv, z, reverse, w0)]
    /\ UNCHANGED <<conv_weight, n_updates, notInvVars>>

\* conv.weight is updated in place (a unit step on one entry)
UpdateWeight(i, j) ==
    /\ n_updates < MaxUpdates
    /\ conv_weight' = [conv_weight EXCEPT !.n[i][j] = @ + 1]
    /\ n_updates' = n_updates + 1
    /\ ret' = NoCall
    /\ UNCHANGED <<inv_conv, notInvVars>>

\* a caller runs forward(forward(z, first)[0 or whole], not first)
RoundTrip(z, first, w0) ==
    /\ ~(first /\ inv_conv = None /\ IsSingular(conv_weight))
    /\ inv_conv' = ForwardInvConv(conv_weight,
                                  ForwardInvConv(conv_weight, inv_conv, first, w0),
                                  ~first, w0)
    /\ ret' = [op |-> "roundtrip", z |-> z, first |-> first,
               out |-> SecondRet(conv_weight,
                                 ForwardRet(conv_weight, inv_conv, z, first, w0),
                                 ForwardInvConv(conv_weight, inv_conv, first, w0),
                                 ~first, w0)]
    /\ UNCHANGED <<conv_weight, n_updates, notInvVars>>

\* the weights a Conv1d constructed by this call may start with: the choice
\* shows only when inverse() raises before the weight is overwritten
FreshInit ==
    IF inv_conv = None /\ IsSingular(conv_weight)
    THEN DefaultConvInit
    ELSE {CHOOSE w \in DefaultConvInit : TRUE}

NextInv ==
    \/ \E z \in Inputs, reverse \in BOOLEAN, w0 \in FreshInit :
          Forward(z, reverse, w0)
    \/ \E i \in 1..2, j \in 1..2 : UpdateWeight(i, j)
    \/ \E z \in Inputs, first \in BOOLEAN, w0 \in FreshInit :
          RoundTrip(z, first, w0)

SpecInv == InitInv /\ [][NextInv]_vars

-----------------------------------------------------------------------------
(* Claims about Invertible1x1Conv, checked under SpecInv *)

\* the sum over input channels that a 1x1 convolution with weight W forms
ChannelSum(W, z, b, o, t) == W.n[o][1] * z.n[b][1][t] + W.n[o][2] * z.n[b][2][t]

\* C1 (as claimed): every call forward(z, reverse=True) that returns, returns
\* the 1x1 convolution of z with the inverse of the weight conv holds at the
\* time of the call.
C1_ReverseUsesCurrentInverse ==
    ( /\ ret.op = "forward"
      /\ ret.reverse
      /\ ret.out.kind = "tensor"
      /\ ~IsSingular(conv_weight) )
        => ret.out.value = Conv1x1(Inverse(conv_weight), ret.z)

\* C2: on a module whose weight has not been modified since construction,
\* a forward call followed by a reverse call on its output, and a reverse
\* call followed by a forward call on its output, give back the input z.
C2_RoundTrip ==
    (ret.op = "roundtrip" /\ n_updates = 0)
        => ret.out # RuntimeError /\ TensorOf(ret.out) = ret.z

C2_Witness ==
    /\ ret.op = "roundtrip"
    /\ n_updates = 0
    /\ ret.first
    /\ conv_weight.n # Identity2
    /\ Len(ret.z.n) > 1
    /\ Len(ret.z.n[1][1]) > 1
    /\ TensorOf(ret.out) = ret.z

-----------------------------------------------------------------------------
(* WaveNet                                                                 *)
(*                                                                         *)
(* The entries of its tensors and parameters are kept by what is known of  *)
(* them: "0" (exactly zero), "fin" (some finite number), "inf" (plus or    *)
(* minus infinity) and "nan" (possibly not a number).  Sums and products   *)
(* of finite numbers are finite (real arithmetic).                         *)

AAdd(x, y) ==
    CASE x = "nan" \/ y = "nan" -> "nan"
      [] x = "0" -> y
      [] y = "0" -> x
      [] x = "inf" /\ y = "inf" -> "nan"
      [] x = "inf" \/ y = "inf" -> "inf"
      [] OTHER -> "fin"

AMul(x, y) ==
    CASE x = "nan" \/ y = "nan" -> "nan"
      [] x = "0" /\ y = "inf" -> "nan"
      [] x = "inf" /\ y = "0" -> "nan"
      [] x = "0" \/ y = "0" -> "0"
      [] x = "inf" /\ y = "inf" -> "inf"
      [] x = "inf" \/ y = "inf" -> "nan"
      [] OTHER -> "fin"

\* torch.tanh: tanh(0) = 0, tanh(+-inf) = +-1
ATanh(x) == CASE x = "0" -> "0" [] x = "nan" -> "nan" [] OTHER -> "fin"

\* torch.sigmoid: sigmoid(0) = 1/2, sigmoid(+-inf) is 1 or 0
ASigmoid(x) == IF x = "nan" THEN "nan" ELSE "fin"

RECURSIVE ASum(_, _)
ASum(terms, acc) ==
    IF terms = <<>> THEN acc ELSE ASum(Tail(terms), AAdd(acc, Head(terms)))

\* the shape of a tensor (batch, channels, time)
BatchOf(x) == Len(x)
ChannelsOf(x) == Len(x[1])
TimeOf(x) == Len(x[1][1])

\* inside a tensor expression a raised RuntimeError is the empty sequence,
\* which no tensor is
Raised == <<>>

\* a returned tensor
Tensor(x) == [kind |-> "tensor", value |-> x]

Full(B, C, T, v) == LET e(b, c, t) == v IN MakeTensor(B, C, T, e)

\* x[:, lo:hi, :] with Python's zero-based half-open bounds
Channels(x, lo, hi) == AsSeq([b \in 1..Len(x) |-> SubSeq(x[b], lo + 1, hi)])

\* x + y for tensors of one shape
TAdd(x, y) ==
    IF BatchOf(x) # BatchOf(y) \/ ChannelsOf(x) # ChannelsOf(y)
          \/ TimeOf(x) # TimeOf(y)
    THEN Raised
    ELSE LET e(b, c, t) == AAdd(x[b][c][t], y[b][c][t])
         IN  MakeTensor(BatchOf(x), ChannelsOf(x), TimeOf(x), e)

\* the time length torch.nn.Conv1d returns for an input of length L (stride 1)
ConvOutLen(L, layer) ==
    L + 2 * layer.padding - layer.dilation * (layer.kernel_size - 1) - 1 + 1

\* a torch.nn.Conv1d with every weight entry known as weight and every bias
\* entry as bias
ConvLayer(in_channels, out_channels, kernel_size, dilation, padding, weight, bias) ==
    [in_channels |-> in_channels, out_channels |-> out_channels,
     kernel_size |-> kernel_size, dilation |-> dilation, padding |-> padding,
     weight |-> weight, bias |-> bias]

\* layer(x): out[b][o][t] = bias + sum over channels c and taps j of
\* weight * x[b][c][t - padding + j * dilation], zero outside the input
ApplyConv(layer, x) ==
    LET L    == TimeOf(x)
        Lout == ConvOutLen(L, layer)
        at(b, c, p) == IF p >= 1 /\ p <= L THEN x[b][c][p] ELSE "0"
        terms(b, t) ==
            [q \in 1..(layer.in_channels * layer.kernel_size) |->
                LET c == ((q - 1) \div layer.kernel_size) + 1
                    j == (q - 1) % layer.kernel_size
                IN  AMul(layer.weight,
                         at(b, c, t - layer.padding + j * layer.dilation))]
    IN  IF ChannelsOf(x) # layer.in_channels \/ Lout < 1
        THEN Raised
        ELSE LET e(b, o, t) == ASum(terms(b, t), layer.bias)
             IN  MakeTensor(BatchOf(x), layer.out_channels, Lout, e)

\* the dilation 2 * i that does not double
DilationLinear(i) == 2 * i

\* dilation = 2 ** i
Dilation(i) == Pow(2, i)

\* the padding of an undilated convolution
PaddingUndilated(kernel_size, dilation) == (kernel_size - 1) \div 2

\* padding = int((kernel_size * dilation - dilation) / 2)
Padding(kernel_size, dilation) == (kernel_size * dilation - dilation) \div 2

\* an end layer left with its default (random) initialisation
EndLayerDefault(n_in_channels, n_channels) ==
    ConvLayer(n_channels, 2 * n_in_channels, 1, 1, 0, "fin", "fin")

\* end = Conv1d(n_channels, 2 * n_in_channels, 1) with weight and bias zeroed
EndLayer(n_in_channels, n_channels) ==
    ConvLayer(n_channels, 2 * n_in_channels, 1, 1, 0, "0", "0")

\* WaveNet.__init__ past its two assertions
WaveNetInit(n_in_channels, n_mel_channels, n_layers, n_channels, kernel_size) ==
    [n_layers |-> n_layers,
     n_channels |-> n_channels,
     start |-> ConvLayer(n_in_channels, n_channels, 1, 1, 0, "fin", "fin"),
     end |-> EndLayer(n_in_channels, n_channels),
     cond_layer |-> ConvLayer(n_mel_channels, 2 * n_channels * n_layers,
                              1, 1, 0, "fin", "fin"),
     in_layers |-> [k \in 1..n_layers |->
         LET i == k - 1
             dilation == Dilation(i)
             padding == Padding(kernel_size, dilation)
         IN  ConvLayer(n_channels, 2 * n_channels, kernel_size, dilation,
                       padding, "fin", "fin")],
     res_skip_layers |-> [k \in 1..n_layers |->
         LET i == k - 1
             res_skip_channels ==
                 IF i < n_layers - 1 THEN 2 * n_channels ELSE n_channels
         IN  ConvLayer(n_channels, res_skip_channels, 1, 1, 0, "fin", "fin")]]

\* F(x), unless x was raised
Then(x, F(_)) == IF x = Raised THEN Raised ELSE F(x)

\* acts = t_act * s_act with t_act = tanh(t_in) and s_act = sigmoid(s_in)
TanhSigmoidMultiply(t_in, s_in) ==
    IF ChannelsOf(t_in) # ChannelsOf(s_in) THEN Raised
    ELSE LET e(b, c, t) == AMul(ATanh(t_in[b][c][t]), ASigmoid(s_in[b][c][t]))
         IN  MakeTensor(BatchOf(t_in), ChannelsOf(t_in), TimeOf(t_in), e)

\* fused_add_tanh_sigmoid_multiply(input_a, input_b, n_channels_int)
fused_add_tanh_sigmoid_multiply(input_a, input_b, n_channels_int) ==
    Then(TAdd(input_a, input_b),
         LAMBDA in_act :
            TanhSigmoidMultiply(
                Channels(in_act, 0, n_channels_int),
                Channels(in_act, n_channels_int, ChannelsOf(in_act))))

\* the constructor arguments the two assertions of __init__ accept
WaveNetArgs ==
    {a \in [n_in_channels : 1..MaxInChannels, n_mel_channels : {1},
            n_layers : 1..MaxLayers, n_channels : 1..MaxChannels,
            kernel_size : 1..MaxKernel] :
        a.kernel_size % 2 = 1 /\ a.n_channels % 2 = 0}

\* forward_input: audio (B, n_in_channels, T) and spect (B, n_mel_channels, T)
\* on the same time axis
WaveNetInputs(m) ==
    {[audio |-> Full(B, m.start.in_channels, T, ka),
      spect |-> Full(B, m.cond_layer.in_channels, T, ks)] :
        B \in 1..MaxBatch, T \in 1..MaxAudioLen,
        ka \in {"0", "fin", "inf"}, ks \in {"fin", "inf"}}

InitWN ==
    /\ WSEIdle
    /\ SAIdle
    /\ InvIdle
    /\ AttIdle
    /\ PCIdle
    /\ \E a \in WaveNetArgs :
          wn = WaveNetInit(a.n_in_channels, a.n_mel_channels, a.n_layers,
                           a.n_channels, a.kernel_size)
    /\ wn_updated = FALSE
    /\ wn_pc = "idle"
    /\ wn_in = None
    /\ wn_i = 0
    /\ wn_audio = None
    /\ wn_spect = None
    /\ wn_output = None
    /\ wn_ret = NoCall

\* forward raises: the call is over
Raise ==
    /\ wn_ret' = RuntimeError
    /\ wn_pc' = "returned"
    /\ UNCHANGED <<wn_i, wn_audio, wn_spect, wn_output>>

\* forward enters its loop with the locals audio, output and spect
EnterLoop(audio, spect) ==
    IF audio = Raised \/ spect = Raised
    THEN Raise
    ELSE /\ wn_audio' = audio
         /\ wn_output' = Full(BatchOf(audio), ChannelsOf(audio), TimeOf(audio), "0")
         /\ wn_spect' = spect
         /\ wn_i' = 0
         /\ wn_pc' = "loop"
         /\ wn_ret' = NoCall

\* forward, up to its loop: start, zeros_like and cond_layer
ForwardStart(forward_input) ==
    /\ wn_pc = "idle"
    /\ wn_in' = forward_input
    /\ EnterLoop(ApplyConv(wn.start, forward_input.audio),
                 ApplyConv(wn.cond_layer, forward_input.spect))
    /\ UNCHANGED <<wn, wn_updated, notWNVars>>

\* acts of iteration i
LayerActs(i) ==
    Then(ApplyConv(wn.in_layers[i + 1], wn_audio),
         LAMBDA conv :
            fused_add_tanh_sigmoid_multiply(
                conv,
                Channels(wn_spect, i * 2 * wn.n_channels,
                         i * 2 * wn.n_channels + 2 * wn.n_channels),
                wn.n_channels))

\* res_skip_acts of iteration i
ResSkipActs(i) ==
    Then(LayerActs(i), LAMBDA acts : ApplyConv(wn.res_skip_layers[i + 1], acts))

\* audio after iteration i
NextAudio(i, res_skip_acts) ==
    IF i < wn.n_layers - 1
    THEN TAdd(wn_audio, Channels(res_skip_acts, 0, wn.n_channels))
    ELSE wn_audio

\* output after iteration i
NextOutput(i, res_skip_acts) ==
    IF i < wn.n_layers - 1
    THEN TAdd(wn_output,
              Channels(res_skip_acts, wn.n_channels, ChannelsOf(res_skip_acts)))
    ELSE TAdd(wn_output, res_skip_acts)

\* the end of an iteration: the locals are assigned
EndIteration(audio, output) ==
    IF audio = Raised \/ output = Raised
    THEN Raise
    ELSE /\ wn_audio' = audio
         /\ wn_output' = output
         /\ wn_i' = wn_i + 1
         /\ UNCHANGED <<wn_spect, wn_pc, wn_ret>>

\* one iteration of the loop of forward
ForwardLayer ==
    /\ wn_pc = "loop"
    /\ wn_i < wn.n_layers
    /\ EndIteration(Then(ResSkipActs(wn_i), LAMBDA r : NextAudio(wn_i, r)),
                    Then(ResSkipActs(wn_i), LAMBDA r : NextOutput(wn_i, r)))
    /\ UNCHANGED <<wn, wn_updated, wn_in, notWNVars>>

\* what forward returns for a value of self.end(output)
Returned(out) == IF out = Raised THEN RuntimeError ELSE Tensor(out)

\* return self.end(output)
ForwardEnd ==
    /\ wn_pc = "loop"
    /\ wn_i = wn.n_layers
    /\ wn_ret' = Returned(ApplyConv(wn.end, wn_output))
    /\ wn_pc' = "returned"
    /\ UNCHANGED <<wn, wn_updated, wn_in, wn_i, wn_audio, wn_spect, wn_output,
                   notWNVars>>

\* the caller is done with the returned tensor; the frame of the call is gone
Discard ==
    /\ wn_pc = "returned"
    /\ wn_pc' = "idle"
    /\ wn_in' = None
    /\ wn_i' = 0
    /\ wn_audio' = None
    /\ wn_spect' = None
    /\ wn_output' = None
    /\ wn_ret' = NoCall
    /\ UNCHANGED <<wn, wn_updated, notWNVars>>

\* a training step gives the parameters of end values that need not be zero
ParameterUpdate ==
    /\ wn_pc = "idle"
    /\ ~wn_updated
    /\ wn' = [wn EXCEPT !.end.weight = "fin", !.end.bias = "fin"]
    /\ wn_updated' = TRUE
    /\ UNCHANGED <<wn_pc, wn_in, wn_i, wn_audio, wn_spect, wn_output, wn_ret,
                   notWNVars>>

NextWN ==
    \/ \E forward_input \in WaveNetInputs(wn) : ForwardStart(forward_input)
    \/ ForwardLayer
    \/ ForwardEnd
    \/ Discard
    \/ ParameterUpdate

SpecWN == InitWN /\ [][NextWN]_vars

-----------------------------------------------------------------------------
(* Claims about WaveNet, checked under SpecWN *)

\* C4: the dilation of in_layers[i] is 2^i for every i in 0..n_layers-1, every
\* in_layer returns the time length it is given, and forward returns a tensor
\* with the time length of its audio input and 2 * n_in_channels channels.
C4_DilationAndLength ==
    /\ \A k \in 1..wn.n_layers :
         /\ wn.in_layers[k].dilation = Pow(2, k - 1)
         /\ wn.in_layers[k].kernel_size % 2 = 1
         /\ 2 * wn.in_layers[k].padding
              = wn.in_layers[k].dilation * (wn.in_layers[k].kernel_size - 1)
         /\ \A L \in 1..MaxAudioLen : ConvOutLen(L, wn.in_layers[k]) = L
    /\ wn_pc = "loop" =>
         /\ TimeOf(wn_audio) = TimeOf(wn_in.audio)
         /\ TimeOf(wn_output) = TimeOf(wn_in.audio)
    /\ wn_pc = "returned" =>
         /\ wn_ret.kind = "tensor"
         /\ BatchOf(wn_ret.value) = BatchOf(wn_in.audio)
         /\ TimeOf(wn_ret.value) = TimeOf(wn_in.audio)
         /\ ChannelsOf(wn_ret.value) = 2 * ChannelsOf(wn_in.audio)

C4_Witness ==
    /\ wn_pc = "returned"
    /\ wn_ret.kind = "tensor"
    /\ wn.n_layers = 3
    /\ wn.in_layers[3].dilation = 4
    /\ wn.in_layers[3].kernel_size = 3
    /\ wn.in_layers[3].padding = 4
    /\ TimeOf(wn_in.audio) = 3
    /\ TimeOf(wn_ret.value) = 3
    /\ ChannelsOf(wn_in.audio) = 2
    /\ ChannelsOf(wn_ret.value) = 4

\* every entry of an input tensor is a finite number
Finite(x) == \A b \in DOMAIN x : \A c \in DOMAIN x[b] : \A t \in DOMAIN x[b][c] :
                x[b][c][t] \in {"0", "fin"}

AllZero(x) == \A b \in DOMAIN x : \A c \in DOMAIN x[b] : \A t \in DOMAIN x[b][c] :
                x[b][c][t] = "0"

\* C5: on a freshly constructed module forward returns the all-zero tensor
\* for every finite (audio, spect) input.
C5_FreshForwardIsZero ==
    ( /\ wn_pc = "returned"
      /\ ~wn_updated
      /\ Finite(wn_in.audio)
      /\ Finite(wn_in.spect) )
        => wn_ret.kind = "tensor" /\ AllZero(wn_ret.value)

C5_Witness ==
    /\ wn_pc = "returned"
    /\ ~wn_updated
    /\ wn_ret.kind = "tensor"
    /\ Finite(wn_in.audio)
    /\ Finite(wn_in.spect)
    /\ ~AllZero(wn_in.audio)
    /\ ~AllZero(wn_output)
    /\ AllZero(wn_ret.value)

-----------------------------------------------------------------------------
(* Attention                                                               *)
(*                                                                         *)
(* An alignment energy is a multiple of ln 2 or minus infinity, so that    *)
(* exp is a power of two and softmax is exact.  [inf |-> 0, v |-> k] is    *)
(* k * ln 2 and NegInf is -float("inf").                                   *)

Fin(k) == [inf |-> 0, v |-> k]

NegInf == [inf |-> -1, v |-> 0]

\* mask is None: the empty sequence, which no mask is
NoMask == <<>>

\* self.score_mask_value = -float("inf")
score_mask_value == NegInf

\* a row of softmax that is not a number
NaNRow == [n |-> <<>>, d |-> 0]

RECURSIVE MinSeq(_)
MinSeq(s) == IF Len(s) = 1 THEN s[1]
             ELSE LET m == MinSeq(Tail(s)) IN IF s[1] < m THEN s[1] ELSE m

\* the sequence s without the entries that fail keep
RECURSIVE SelectFin(_)
SelectFin(s) ==
    IF s = <<>> THEN <<>>
    ELSE IF Head(s).inf = 0 THEN <<Head(s).v>> \o SelectFin(Tail(s))
    ELSE SelectFin(Tail(s))

\* the row n/d in lowest terms
DivRow(n, d, g) == [n |-> AsSeq([t \in 1..Len(n) |-> n[t] \div g]), d |-> d \div g]

NormRow(n, d) == DivRow(n, d, Gcd(d, GcdSeq(n)))

\* exp(x - lo * ln 2) for every entry x of row; exp(-inf) = 0
ExpRow(row, lo) ==
    AsSeq([t \in 1..Len(row) |->
        IF row[t].inf = 0 THEN Pow(2, row[t].v - lo) ELSE 0])

SoftmaxOfExp(e) == NormRow(e, SumSeq(e))

\* softmax of one row: exp(x_t) / sum of exp(x_u); every entry -inf gives
\* 0/0, not a number
SoftmaxRow(row) ==
    IF SelectFin(row) = <<>> THEN NaNRow
    ELSE SoftmaxOfExp(ExpRow(row, MinSeq(SelectFin(row))))

\* F.softmax(alignment, dim=1)
Softmax(alignment) ==
    AsSeq([b \in 1..Len(alignment) |-> SoftmaxRow(alignment[b])])

\* a slip that fills the positions the mask leaves out
MaskedFillInverted(alignment, mask, value) ==
    AsSeq([b \in 1..Len(alignment) |-> AsSeq([t \in 1..Len(alignment[b]) |->
        IF ~mask[b][t] THEN value ELSE alignment[b][t]])])

\* alignment.data.masked_fill_(mask, value)
MaskedFill(alignment, mask, value) ==
    AsSeq([b \in 1..Len(alignment) |-> AsSeq([t \in 1..Len(alignment[b]) |->
        IF mask[b][t] THEN value ELSE alignment[b][t]])])

\* one row of torch.bmm(attention_weights.unsqueeze(1), memory).squeeze(1):
\* the sum over t of w[t] * mem[t], per embedding dimension
ContextRow(w, mem) ==
    IF w = NaNRow THEN NaNRow
    ELSE NormRow(AsSeq([k \in 1..Len(mem[1]) |->
                    SumSeq([t \in 1..Len(mem) |-> w.n[t] * mem[t][k]])]),
                 w.d)

Bmm(weights, memory) ==
    AsSeq([b \in 1..Len(weights) |-> ContextRow(weights[b], memory[b])])

\* forward past get_alignment_energies: masked_fill_, softmax and bmm
AttentionOf(weights, memory) ==
    [attention_context |-> Bmm(weights, memory), attention_weights |-> weights]

AttentionForward(alignment, memory, mask) ==
    AttentionOf(Softmax(IF mask # NoMask
                        THEN MaskedFill(alignment, mask, score_mask_value)
                        ELSE alignment),
                memory)

\* the arguments of the model.  get_alignment_energies returns a finite
\* (B, T) tensor: v applied to a tanh.  Row b of every argument is row 1
\* shifted by b - 1, so the rows of a batch differ.
Shift(t, b, T) == ((t + b - 2) % T) + 1

Energies(B, row) ==
    AsSeq([b \in 1..B |-> AsSeq([t \in 1..Len(row) |->
        Fin(row[Shift(t, b, Len(row))] + (b - 1))])])

Masks(B, row) ==
    AsSeq([b \in 1..B |-> AsSeq([t \in 1..Len(row) |-> row[Shift(t, b, Len(row))]])])

\* memory of shape (B, T, 2)
Memory(B, T) ==
    AsSeq([b \in 1..B |-> AsSeq([t \in 1..T |-> <<3 * t + b, b - t>>])])

AttArgs(alignment, memory, mask) ==
    [alignment |-> alignment, memory |-> memory, mask |-> mask]

AttInputs ==
    UNION {
        {AttArgs(Energies(B, e), Memory(B, T), NoMask) :
            e \in [1..T -> 0..MaxEnergy]}
        \cup
        {AttArgs(Energies(B, e[1]), Memory(B, T), Masks(B, e[2])) :
            e \in [1..T -> 0..MaxEnergy] \X [1..T -> BOOLEAN]}
        : B \in 1..MaxBatch, T \in 1..MaxMemLen }

\* an Attention and the arguments it is about to be called with
InitAtt ==
    /\ WSEIdle
    /\ SAIdle
    /\ InvIdle
    /\ WNIdle
    /\ PCIdle
    /\ att_in \in AttInputs
    /\ att_ret = NoCall

\* forward(attention_hidden_state, memory, processed_memory,
\* attention_weights_cat, mask), alignment being what
\* get_alignment_energies returned
AttForward ==
    /\ att_ret = NoCall
    /\ att_ret' = AttentionForward(att_in.alignment, att_in.memory, att_in.mask)
    /\ UNCHANGED <<att_in, notAttVars>>

NextAtt == AttForward

SpecAtt == InitAtt /\ [][NextAtt]_vars

-----------------------------------------------------------------------------
(* Claims about Attention, checked under SpecAtt *)

\* the sum of f[t] over the positions t of 1..T that the mask row leaves in
RECURSIVE UnmaskedSum(_, _, _)
UnmaskedSum(f, maskrow, T) ==
    IF T = 0 THEN 0
    ELSE (IF maskrow[T] THEN 0 ELSE f[T]) + UnmaskedSum(f, maskrow, T - 1)

\* C6: when a binary mask is given, for every batch row with at least one
\* unmasked position the attention weights are 0 at every masked position
\* and sum to 1 over time, and attention_context is the weighted sum of the
\* unmasked memory rows only.
C6_MaskedWeights ==
    (att_ret # NoCall /\ att_in.mask # NoMask) =>
        \A b \in 1..Len(att_in.mask) :
            LET mrow == att_in.mask[b]
                T    == Len(mrow)
                w    == att_ret.attention_weights[b]
                c    == att_ret.attention_context[b]
                mem  == att_in.memory[b]
            IN  (\E t \in 1..T : ~mrow[t]) =>
                  /\ w # NaNRow
                  /\ Len(w.n) = T
                  /\ w.d > 0
                  /\ \A t \in 1..T : w.n[t] >= 0 /\ (mrow[t] => w.n[t] = 0)
                  /\ SumSeq(w.n) = w.d
                  /\ c # NaNRow
                  /\ \A k \in 1..Len(mem[1]) :
                        c.n[k] * w.d
                          = c.d * UnmaskedSum([t \in 1..T |-> w.n[t] * mem[t][k]],
                                              mrow, T)

C6_Witness ==
    /\ att_ret # NoCall
    /\ att_in.mask # NoMask
    /\ Len(att_in.mask) = 2
    /\ att_in.mask[1] = <<FALSE, TRUE, FALSE>>
    /\ att_in.alignment[1] = <<Fin(0), Fin(1), Fin(1)>>
    /\ att_ret.attention_weights[1] = [n |-> <<1, 0, 2>>, d |-> 3]
    /\ att_ret.attention_weights[2] = [n |-> <<0, 2, 1>>, d |-> 3]

-----------------------------------------------------------------------------
(* PartialConv1d                                                           *)
(*                                                                         *)
(* in_channels = out_channels = 1.  An input has shape (B, 1, T) and       *)
(* integer entries, a mask has shape (B, 1, T) and entries 0 or 1, None is *)
(* the empty sequence.  An entry of mask_ratio or of an output is a        *)
(* rational number [n, d] in lowest terms.                                 *)

\* 1e-6 is 1 / EpsDen
EpsDen == 1000000

RatDiv(n, d, g) == [n |-> n \div g, d |-> d \div g]

\* n/d in lowest terms, for d > 0
Rat(n, d) == RatDiv(n, d, Gcd(n, d))

RatTimesInt(r, k) == Rat(r.n * k, r.d)

RatPlusInt(r, k) == Rat(r.n + k * r.d, r.d)

\* a tensor clamped without its bounds
ClampSkipped(x, lo, hi) == x

\* torch.clamp(x, lo, hi) of one entry
Clamp(x, lo, hi) == IF x < lo THEN lo ELSE IF x > hi THEN hi ELSE x

\* tuple(input.shape)
Shape(x) == <<Len(x), Len(x[1]), Len(x[1][1])>>

\* the time length F.conv1d returns for an input of length T; a negative
\* numerator is an input shorter than the kernel, which raises
ConvSpan(layer, T) ==
    T + 2 * layer.padding - layer.dilation * (layer.kernel_size - 1) - 1

OutLen(layer, T) == (ConvSpan(layer, T) \div layer.stride) + 1

\* the input position under tap j (from 0) of output position t (from 1)
TapPos(layer, t, j) == (t - 1) * layer.stride - layer.padding + j * layer.dilation + 1

\* the entry of row at position p, zero in the padding
Padded(row, p) == IF p >= 1 /\ p <= Len(row) THEN row[p] ELSE 0

\* one output entry of F.conv1d without bias: the sum over the taps
WindowSum(layer, weight, row, t) ==
    SumSeq([q \in 1..layer.kernel_size |->
                weight[q] * Padded(row, TapPos(layer, t, q - 1))])

\* F.conv1d(x, weight, bias=None, stride, padding, dilation) for one channel
Conv1dNoBias(layer, weight, x) ==
    IF ConvSpan(layer, TimeOf(x)) < 0 THEN Raised
    ELSE LET e(b, c, t) == WindowSum(layer, weight, x[b][1], t)
         IN  MakeTensor(Len(x), 1, OutLen(layer, TimeOf(x)), e)

\* self.weight_maskUpdater = torch.ones(1, 1, kernel_size)
weight_maskUpdater(layer) == [q \in 1..layer.kernel_size |-> 1]

\* self.slide_winsize = weight_maskUpdater.shape[1] * weight_maskUpdater.shape[2]
slide_winsize(layer) == 1 * Len(weight_maskUpdater(layer))

\* the batch index of x that broadcasts against batch index b
Bc(x, b) == IF Len(x) = 1 THEN 1 ELSE b

\* whether x broadcasts to batch size B and time length T
Broadcasts(x, B, T) == Len(x) \in {1, B} /\ TimeOf(x) = T

\* torch.mul(input, mask), for a mask of the batch size of the input or 1
MulMask(input, mask) ==
    IF ~Broadcasts(mask, Len(input), TimeOf(input)) THEN Raised
    ELSE LET e(b, c, t) == input[b][c][t] * mask[Bc(mask, b)][1][t]
         IN  MakeTensor(Len(input), ChannelsOf(input), TimeOf(input), e)

\* mask_ratio = slide_winsize / (update_mask + 1e-6), times the clamped
\* update_mask
MaskRatio(layer, count) ==
    LET e(b, c, t) ==
            RatTimesInt(Rat(slide_winsize(layer) * EpsDen,
                            count[b][c][t] * EpsDen + 1),
                        Clamp(count[b][c][t], 0, 1))
    IN  MakeTensor(Len(count), 1, TimeOf(count), e)

\* update_mask = torch.clamp(update_mask, 0, 1)
ClampMask(count) ==
    LET e(b, c, t) == Clamp(count[b][c][t], 0, 1)
    IN  MakeTensor(Len(count), 1, TimeOf(count), e)

\* what calculate_mask returns for the convolved mask count: the triple
\* input, mask_ratio, update_mask
MaskResult(layer, input, mask, count) ==
    IF count = Raised \/ MulMask(input, mask) = Raised THEN Raised
    ELSE <<MulMask(input, mask), MaskRatio(layer, count), ClampMask(count)>>

\* the mask calculate_mask works on
MaskOrOnes(input, mask_in) ==
    IF mask_in = NoMask THEN Full(1, 1, TimeOf(input), 1) ELSE mask_in

\* calculate_mask(input, mask_in)
calculate_mask(layer, input, mask_in) ==
    MaskResult(layer, input, MaskOrOnes(input, mask_in),
               Conv1dNoBias(layer, weight_maskUpdater(layer),
                            MaskOrOnes(input, mask_in)))

\* self._conv_forward(input, self.weight, self.bias): integer entries
ConvForward(layer, input) ==
    IF ConvSpan(layer, TimeOf(input)) < 0 THEN Raised
    ELSE LET e(b, c, t) ==
                WindowSum(layer, layer.weight, input[b][1], t)
                  + (IF layer.bias = <<>> THEN 0 ELSE layer.bias[1])
         IN  MakeTensor(Len(input), 1, OutLen(layer, TimeOf(input)), e)

\* the output of forward_aux from raw_out
AuxOutput(layer, raw_out, ratio, umask) ==
    IF raw_out = Raised THEN Raised
    ELSE IF ~Broadcasts(ratio, Len(raw_out), TimeOf(raw_out)) THEN Raised
    ELSE IF ~Broadcasts(umask, Len(raw_out), TimeOf(raw_out)) THEN Raised
    ELSE LET e(b, c, t) ==
                IF layer.bias # <<>>
                THEN RatTimesInt(
                        RatPlusInt(
                            RatTimesInt(ratio[Bc(ratio, b)][1][t],
                                        raw_out[b][c][t] - layer.bias[1]),
                            layer.bias[1]),
                        umask[Bc(umask, b)][1][t])
                ELSE RatTimesInt(ratio[Bc(ratio, b)][1][t], raw_out[b][c][t])
         IN  MakeTensor(Len(raw_out), 1, TimeOf(raw_out), e)

\* forward_aux(input, mask_ratio, update_mask)
forward_aux(layer, input, ratio, umask) ==
    AuxOutput(layer, ConvForward(layer, input), ratio, umask)

\* forward_aux on what calculate_mask returned
AuxOfMask(layer, cm) ==
    IF cm = Raised THEN Raised
    ELSE forward_aux(layer, cm[1], cm[2], cm[3])

\* forward with partial = False, and the same branch of forward_no_cache
ForwardPlain(layer, input, mask_in) ==
    IF mask_in = NoMask THEN ConvForward(layer, input)
    ELSE IF MulMask(input, mask_in) = Raised THEN Raised
    ELSE ConvForward(layer, MulMask(input, mask_in))

\* forward_no_cache(input, mask_in)
forward_no_cache(layer, is_partial, input, mask_in) ==
    IF is_partial
    THEN AuxOfMask(layer, calculate_mask(layer, input, mask_in))
    ELSE ForwardPlain(layer, input, mask_in)

\* use_cache = not (torch.jit.is_tracing() or torch.onnx.is_in_onnx_export())
UseCache(tracing) == ~tracing

\* a cache that is hit whatever mask is given
CacheHitAnyMask(size, input, mask_in, tracing) ==
    UseCache(tracing) /\ size = Shape(input)

\* cache_hit = use_cache and mask_in is None and self.last_size == input.shape
CacheHit(size, input, mask_in, tracing) ==
    UseCache(tracing) /\ mask_in = NoMask /\ size = Shape(input)

\* the layers the cache is exercised on: kernel_size 3 with padding 1 keeps
\* the time length, with and without a bias
CachedLayers ==
    {[kernel_size |-> 3, stride |-> 1, padding |-> 1, dilation |-> 1,
      weight |-> <<1, 2, 1>>, bias |-> bias] : bias \in {<<>>, <<1>>}}

\* the input of shape (B, 1, T)
ConvInput(B, T) == LET e(b, c, t) == b + t IN MakeTensor(B, 1, T, e)

\* the mask of shape (B, 1, T) whose row b is row turned by b - 1 places
ConvMask(B, T, row) ==
    LET e(b, c, t) == row[Shift(t, b, T)] IN MakeTensor(B, 1, T, e)

ConvMasks(B, T) ==
    {NoMask} \cup {ConvMask(B, T, AsSeq(row)) : row \in [1..T -> {0, 1}]}

ConvArgs ==
    UNION {{[input |-> ConvInput(B, T), mask_in |-> m, tracing |-> tr] :
                m \in ConvMasks(B, T), tr \in BOOLEAN} :
           B \in 1..MaxBatch, T \in 1..MaxConvLen}

InitPC ==
    /\ WSEIdle
    /\ SAIdle
    /\ InvIdle
    /\ WNIdle
    /\ AttIdle
    /\ pc_layer \in CachedLayers
    /\ partial = TRUE
    /\ last_size = <<-1, -1, -1>>
    /\ update_mask = <<<<<<1>>>>>>
    /\ mask_ratio = <<<<<<[n |-> 1, d |-> 1]>>>>>>
    /\ pc_phase = "idle"
    /\ pc_in = None
    /\ pc_ret = NoCall

\* the call returns out, or raises
PCReturn(op, out) ==
    /\ pc_phase' = "returned"
    /\ pc_ret' = [op |-> op, out |-> Returned(out)]

\* forward_with_cache after a cache miss, cm being what calculate_mask
\* returned
CacheMiss(cm, tracing) ==
    /\ IF cm # Raised /\ UseCache(tracing)
       THEN /\ last_size' = Shape(cm[1])
            /\ update_mask' = cm[3]
            /\ mask_ratio' = cm[2]
       ELSE UNCHANGED <<last_size, update_mask, mask_ratio>>
    /\ PCReturn("forward", AuxOfMask(pc_layer, cm))

\* forward_with_cache(input, mask_in)
ForwardWithCache(a) ==
    IF CacheHit(last_size, a.input, a.mask_in, a.tracing)
    THEN /\ PCReturn("forward",
                     forward_aux(pc_layer, a.input, mask_ratio, update_mask))
         /\ UNCHANGED <<last_size, update_mask, mask_ratio>>
    ELSE CacheMiss(calculate_mask(pc_layer, a.input, a.mask_in), a.tracing)

\* forward(input, mask_in)
PCForward(a) ==
    /\ pc_phase = "idle"
    /\ pc_in' = a
    /\ IF partial
       THEN ForwardWithCache(a)
       ELSE /\ PCReturn("forward", ForwardPlain(pc_layer, a.input, a.mask_in))
            /\ UNCHANGED <<last_size, update_mask, mask_ratio>>
    /\ UNCHANGED <<pc_layer, partial>>
    /\ UNCHANGED notPCVars

\* conv.partial = use_partial_padding
SetPartial(v) ==
    /\ pc_phase = "idle"
    /\ partial # v
    /\ partial' = v
    /\ UNCHANGED <<pc_layer, last_size, update_mask, mask_ratio, pc_phase,
                   pc_in, pc_ret>>
    /\ UNCHANGED notPCVars

\* the caller takes the result; the module is ready for the next call
PCDiscard ==
    /\ pc_phase = "returned"
    /\ pc_phase' = "idle"
    /\ pc_in' = None
    /\ pc_ret' = NoCall
    /\ UNCHANGED <<pc_layer, partial, last_size, update_mask, mask_ratio>>
    /\ UNCHANGED notPCVars

NextPC ==
    \/ \E a \in ConvArgs : PCForward(a)
    \/ \E v \in BOOLEAN : SetPartial(v)
    \/ PCDiscard

SpecPC == InitPC /\ [][NextPC]_vars

\* C7: with partial = True and outside tracing and ONNX export, every call
\* forward(input, mask_in), after any sequence of earlier calls, returns what
\* forward_no_cache(input, mask_in) returns on the same module.
C7_ForwardEqualsNoCache ==
    (pc_phase = "returned" /\ pc_ret.op = "forward" /\ partial
        /\ ~pc_in.tracing)
      => pc_ret.out = Returned(forward_no_cache(pc_layer, partial, pc_in.input,
                                                pc_in.mask_in))

\* the condition under which a call of forward writes the cache
WritesCache(a) ==
    /\ partial
    /\ ~a.tracing
    /\ (a.mask_in # NoMask \/ Shape(a.input) # last_size)

\* the cache after a call of forward with arguments a that wrote it
CacheWritten(a, cm) ==
    /\ last_size' = Shape(a.input)
    /\ update_mask' = cm[3]
    /\ mask_ratio' = cm[2]

\* C8: a call of forward writes last_size, update_mask and mask_ratio if and
\* only if partial is True, no tracing or export is active and a mask is
\* given or the input shape differs from last_size; it then sets last_size
\* to the input shape and update_mask and mask_ratio to what calculate_mask
\* returned for the call.  Every other call leaves the three unchanged, and
\* a call on the initial last_size (-1, -1, -1) is never a cache hit.
C8_CacheFrame ==
    [][(pc_phase = "idle" /\ pc_phase' = "returned" /\ pc_ret'.op = "forward")
         => /\ IF WritesCache(pc_in')
               THEN CacheWritten(pc_in', calculate_mask(pc_layer, pc_in'.input,
                                                        pc_in'.mask_in))
               ELSE UNCHANGED <<last_size, update_mask, mask_ratio>>
            /\ (last_size = <<-1, -1, -1>> /\ partial /\ ~pc_in'.tracing)
                 => last_size' = Shape(pc_in'.input)]_vars

\* a masked call has written the masks of its mask to the cache
C8_Witness ==
    /\ pc_phase = "returned"
    /\ partial
    /\ ~pc_in.tracing
    /\ pc_in.mask_in = <<<<<<1, 0, 0>>>>, <<<<0, 0, 1>>>>>>
    /\ last_size = <<2, 1, 3>>
    /\ update_mask = <<<<<<1, 1, 0>>>>, <<<<0, 1, 1>>>>>>
    /\ pc_ret.out # RuntimeError

\* the layers calculate_mask is applied on
MaskLayers ==
    {[kernel_size |-> k, stride |-> st, padding |-> p, dilation |-> d,
      weight |-> AsSeq([q \in 1..k |-> 1]), bias |-> <<>>] :
        k \in 1..MaxConvKernel, st \in 1..MaxStride, p \in 0..MaxPadding,
        d \in 1..MaxDilation}

MaskArgs ==
    UNION {{[input |-> ConvInput(B, T), mask_in |-> m] : m \in ConvMasks(B, T)} :
           B \in 1..MaxBatch, T \in 1..MaxConvLen}

InitCM ==
    /\ WSEIdle
    /\ SAIdle
    /\ InvIdle
    /\ WNIdle
    /\ AttIdle
    /\ pc_layer \in MaskLayers
    /\ partial = TRUE
    /\ last_size = <<-1, -1, -1>>
    /\ update_mask = <<<<<<1>>>>>>
    /\ mask_ratio = <<<<<<[n |-> 1, d |-> 1]>>>>>>
    /\ pc_phase = "idle"
    /\ pc_in \in MaskArgs
    /\ pc_ret = NoCall

\* calculate_mask(input, mask_in) applied to the arguments drawn
CalculateMask ==
    /\ pc_phase = "idle"
    /\ pc_phase' = "returned"
    /\ pc_ret' = [op |-> "calculate_mask",
                  out |-> calculate_mask(pc_layer, pc_in.input, pc_in.mask_in)]
    /\ UNCHANGED <<pc_layer, partial, last_size, update_mask, mask_ratio, pc_in>>
    /\ UNCHANGED notPCVars

NextCM == CalculateMask

SpecCM == InitCM /\ [][NextCM]_vars

\* the value of the mask of the call at batch index b and position p
MaskAt(b, p) ==
    IF pc_in.mask_in = NoMask THEN 1 ELSE pc_in.mask_in[b][1][p]

\* the taps of the window of output position t that lie on a position of
\* the input whose mask value is 1
CoveredTaps(b, t) ==
    {j \in 0..(pc_layer.kernel_size - 1) :
        LET p == (t - 1) * pc_layer.stride - pc_layer.padding
                    + j * pc_layer.dilation + 1
        IN  p >= 1 /\ p <= TimeOf(pc_in.input) /\ MaskAt(b, p) = 1}

\* the output positions: those whose window fits the padded input
WindowPositions ==
    {t \in 1..(TimeOf(pc_in.input) + 2 * pc_layer.padding) :
        (t - 1) * pc_layer.stride + pc_layer.dilation * (pc_layer.kernel_size - 1)
            < TimeOf(pc_in.input) + 2 * pc_layer.padding}

\* r is the fraction (k * EpsDen) / d, whose common factors divide k
IsRatio(r, k, d) ==
    \E g \in 1..k : r.n * g = k * EpsDen /\ r.d * g = d

\* C9: calculate_mask returns update_mask 1 at each output position whose
\* kernel window, under the stride, padding and dilation of the layer,
\* covers a position of mask value 1, and 0 elsewhere; mask_ratio 0 exactly
\* where update_mask is 0 and elsewhere kernel_size / (number of covered
\* positions + 1e-6); and the input multiplied elementwise by the mask.
C9_CalculateMask ==
    (pc_phase = "returned" /\ pc_ret.op = "calculate_mask"
        /\ pc_ret.out # Raised)
      => /\ \A b \in 1..Len(pc_ret.out[3]) :
              /\ Len(pc_ret.out[3][b][1]) = Cardinality(WindowPositions)
              /\ Len(pc_ret.out[2][b][1]) = Cardinality(WindowPositions)
              /\ \A t \in WindowPositions :
                   /\ pc_ret.out[3][b][1][t]
                        = (IF CoveredTaps(b, t) = {} THEN 0 ELSE 1)
                   /\ (pc_ret.out[2][b][1][t].n = 0)
                        <=> (pc_ret.out[3][b][1][t] = 0)
                   /\ pc_ret.out[3][b][1][t] # 0
                        => IsRatio(pc_ret.out[2][b][1][t],
                                   pc_layer.kernel_size,
                                   Cardinality(CoveredTaps(b, t)) * EpsDen + 1)
         /\ Len(pc_ret.out[3]) = (IF pc_in.mask_in = NoMask THEN 1
                                  ELSE Len(pc_in.mask_in))
         /\ \A b \in 1..Len(pc_in.input) : \A t \in 1..TimeOf(pc_in.input) :
              pc_ret.out[1][b][1][t] = pc_in.input[b][1][t] * MaskAt(b, t)

\* a dilated kernel of size 2 on the mask 1 0 0: the first and the last
\* window cover no valid position, the middle one covers one
C9_Witness ==
    /\ pc_phase = "returned"
    /\ pc_ret.op = "calculate_mask"
    /\ pc_layer.kernel_size = 2
    /\ pc_layer.dilation = 2
    /\ pc_layer.padding = 1
    /\ pc_layer.stride = 1
    /\ pc_in.mask_in = <<<<<<1, 0, 0>>>>>>
    /\ pc_ret.out # Raised
    /\ pc_ret.out[3] = <<<<<<0, 1, 0>>>>>>
    /\ pc_ret.out[2][1][1][2] = [n |-> 2000000, d |-> 1000001]
    /\ pc_ret.out[1] = <<<<<<2, 0, 0>>>>>>

-----------------------------------------------------------------------------
(* StyleAttention                                                          *)
(*                                                                         *)
(* A tensor is the pair <<shape, data>>, data being its entries in the     *)
(* contiguous (row-major) order, so that view and permute are the index    *)
(* arithmetic of the library.  Indices and the orders of permute count     *)
(* from 0 as in the source.  The entries of tokens are -1, 0 or 1, and an  *)
(* entry of tanh(tokens), of k, of v or of a result with token_id is the   *)
(* number c + t * tanh(1), kept as [c, t]: tanh(1) is irrational, so two   *)
(* such numbers are equal exactly when their c and t are.                  *)

\* token_id = None; a token_id given is the sequence of its indices, one
\* index for a plain integer, counted from 1
NoToken == <<>>

\* tanh of an entry of tokens: tanh(0) = 0 and tanh(-1) = -tanh(1)
Tanh(x) == [c |-> 0, t |-> x]

PairPlus(a, b) == [c |-> a.c + b.c, t |-> a.t + b.t]

PairTimesInt(a, k) == [c |-> a.c * k, t |-> a.t * k]

PairOfInt(k) == [c |-> k, t |-> 0]

RECURSIVE SumPairs(_)
SumPairs(ps) ==
    IF ps = <<>> THEN PairOfInt(0) ELSE PairPlus(Head(ps), SumPairs(Tail(ps)))

RECURSIVE ProdSeq(_)
ProdSeq(ns) == IF ns = <<>> THEN 1 ELSE Head(ns) * ProdSeq(Tail(ns))

\* the stride of dimension i (from 1) of a contiguous tensor of this shape
StrideOf(shape, i) == ProdSeq(SubSeq(shape, i + 1, Len(shape)))

\* the index along dimension i (from 1) of the entry at place f (from 1)
IndexAt(f, shape, i) == ((f - 1) \div StrideOf(shape, i)) % shape[i]

\* x.view(shape)
View(x, shape) ==
    IF x = Raised \/ ProdSeq(shape) # Len(x[2]) THEN Raised
    ELSE <<shape, x[2]>>

\* x.view(-1, rest...) and x.view(first..., -1)
InferredDim(x, others) ==
    IF ProdSeq(others) = 0 THEN 0 ELSE Len(x[2]) \div ProdSeq(others)

ViewFirstFree(x, rest) ==
    IF x = Raised THEN Raised ELSE View(x, <<InferredDim(x, rest)>> \o rest)

ViewLastFree(x, first) ==
    IF x = Raised THEN Raised ELSE View(x, first \o <<InferredDim(x, first)>>)

\* the place in x of the entry that x.permute(order) has at place f, ns
\* being the shape of the result
PermutedPlace(x, order, ns, f) ==
    1 + SumSeq([i \in 1..Len(ns) |->
                    IndexAt(f, ns, i) * StrideOf(x[1], order[i] + 1)])

PermuteTo(x, order, ns) ==
    <<ns, AsSeq([f \in 1..Len(x[2]) |-> x[2][PermutedPlace(x, order, ns, f)]])>>

\* x.permute(order).contiguous()
Permute(x, order) ==
    IF x = Raised THEN Raised
    ELSE PermuteTo(x, order, AsSeq([i \in 1..Len(order) |-> x[1][order[i] + 1]]))

\* the entry of a tensor of three dimensions at [i, j, k]
At3(x, i, j, k) == x[2][1 + (i * x[1][2] + j) * x[1][3] + k]

\* torch.nn.Linear on a row of integers
LinearInt(layer, row) ==
    [g \in 1..Len(layer.bias) |->
        layer.bias[g] + SumSeq([d \in 1..Len(row) |-> layer.weight[g][d] * row[d]])]

\* torch.nn.Linear on a row of numbers c + t * tanh(1)
LinearPair(layer, row) ==
    [g \in 1..Len(layer.bias) |->
        PairPlus(PairOfInt(layer.bias[g]),
                 SumPairs([d \in 1..Len(row) |->
                              PairTimesInt(row[d], layer.weight[g][d])]))]

\* self.tanh(self.tokens), row n
TanhRow(row) == AsSeq([c \in 1..Len(row) |-> Tanh(row[c])])

\* q = self.q_linear(inputs.unsqueeze(1)), of shape (bs, 1, output_size)
QueryOf(m, inputs) ==
    <<<<Len(inputs), 1, m.output_size>>,
      AsSeq([f \in 1..(Len(inputs) * m.output_size) |->
                LinearInt(m.q_linear,
                          inputs[IndexAt(f, <<Len(inputs), 1, m.output_size>>, 1) + 1])
                    [IndexAt(f, <<Len(inputs), 1, m.output_size>>, 3) + 1]])>>

\* layer(self.tanh(self.tokens).unsqueeze(0).expand(bs, -1, -1)), of shape
\* (bs, n_token, output_size)
ProjectTokens(m, layer, bs, shape) ==
    <<shape,
      AsSeq([f \in 1..ProdSeq(shape) |->
                LinearPair(layer, TanhRow(m.tokens[IndexAt(f, shape, 2) + 1]))
                    [IndexAt(f, shape, 3) + 1]])>>

KeyOf(m, bs) == ProjectTokens(m, m.k_linear, bs, <<bs, m.n_token, m.output_size>>)

ValueOf(m, bs) == ProjectTokens(m, m.v_linear, bs, <<bs, m.n_token, m.output_size>>)

\* x.view(bs, x.shape[1], self.n_head, self.token_size)
SplitHeads(m, bs, x) == View(x, <<bs, x[1][2], m.n_head, m.token_size>>)

\* q.permute(2, 0, 1, 3).contiguous().view(-1, q.shape[1], q.shape[3]), and
\* the same for v
HeadsFirst(x) ==
    IF x = Raised THEN Raised
    ELSE ViewFirstFree(Permute(x, <<2, 0, 1, 3>>), <<x[1][2], x[1][4]>>)

\* k.permute(2, 0, 3, 1).contiguous().view(-1, k.shape[3], k.shape[1])
HeadsFirstTransposed(x) ==
    IF x = Raised THEN Raised
    ELSE ViewFirstFree(Permute(x, <<2, 0, 3, 1>>), <<x[1][4], x[1][2]>>)

\* torch.bmm(q, k): integers times numbers c + t * tanh(1)
BmmLogits(q, k) ==
    <<<<q[1][1], q[1][2], k[1][3]>>,
      AsSeq([f \in 1..(q[1][1] * q[1][2] * k[1][3]) |->
            SumPairs([j \in 1..q[1][3] |->
                PairTimesInt(
                    At3(k, IndexAt(f, <<q[1][1], q[1][2], k[1][3]>>, 1), j - 1,
                        IndexAt(f, <<q[1][1], q[1][2], k[1][3]>>, 3)),
                    At3(q, IndexAt(f, <<q[1][1], q[1][2], k[1][3]>>, 1),
                        IndexAt(f, <<q[1][1], q[1][2], k[1][3]>>, 2), j - 1))])])>>

\* the logits of one row less the first of them: softmax gives two rows the
\* same weights exactly when they differ by a constant
CentredRow(x, i, j) ==
    AsSeq([n \in 1..x[1][3] |->
              PairPlus(At3(x, i, j, n - 1), PairTimesInt(At3(x, i, j, 0), -1))])

\* self.softmax(logits / self.temperature) over dim 2: an entry is kept as
\* its row of logits, the square of the temperature and its place in the row
Softmax3(logits, temperature2) ==
    <<logits[1],
      AsSeq([f \in 1..Len(logits[2]) |->
                [kind |-> "softmax",
                 logits |-> CentredRow(logits, IndexAt(f, logits[1], 1),
                                       IndexAt(f, logits[1], 2)),
                 temperature2 |-> temperature2,
                 at |-> IndexAt(f, logits[1], 3)]])>>

\* scores = torch.zeros_like(scores); scores[:, :, token_id] = 1
TokenScores(scores, token_id) ==
    <<scores[1],
      AsSeq([f \in 1..Len(scores[2]) |->
                [kind |-> "number",
                 value |-> IF \E i \in 1..Len(token_id) :
                                   token_id[i] = IndexAt(f, scores[1], 3) + 1
                           THEN 1 ELSE 0]])>>

\* one entry of torch.bmm(scores, v): a number when the scores are numbers,
\* and the weighted mean of the values under the softmax otherwise
WeightedSum(srow, vcol) ==
    IF \A j \in 1..Len(srow) : srow[j].kind = "number"
    THEN SumPairs([j \in 1..Len(srow) |-> PairTimesInt(vcol[j], srow[j].value)])
    ELSE [kind |-> "mean", scores |-> srow, values |-> vcol]

\* torch.bmm(scores, v)
BmmScores(scores, v, shape) ==
    <<shape,
      AsSeq([f \in 1..ProdSeq(shape) |->
            WeightedSum(
                AsSeq([j \in 1..scores[1][3] |->
                          At3(scores, IndexAt(f, shape, 1), IndexAt(f, shape, 2),
                              j - 1)]),
                AsSeq([j \in 1..scores[1][3] |->
                          At3(v, IndexAt(f, shape, 1), j - 1,
                              IndexAt(f, shape, 3))]))])>>

\* x.squeeze(1)
Squeeze1(x) ==
    IF x[1][2] = 1 THEN <<<<x[1][1]>> \o SubSeq(x[1], 3, Len(x[1])), x[2]>>
    ELSE x

\* the heads left where bmm put them
RowsOfHeadsSkipped(x) == x

\* style_emb.permute(1, 0, 2).contiguous()
RowsOfHeads(x) == Permute(x, <<1, 0, 2>>)

\* lines 587 to 589: style_emb from the scores and v
StyleEmb(m, bs, scores, v) ==
    ViewLastFree(
        RowsOfHeads(
            View(Squeeze1(BmmScores(scores, v, <<scores[1][1], scores[1][2], v[1][3]>>)),
                 <<m.n_head, bs, m.token_size>>)),
        <<bs>>)

\* lines 581 to 589, q, k and v being laid out head by head
ScoredStyle(m, bs, token_id, scores, v) ==
    IF token_id = NoToken THEN StyleEmb(m, bs, scores, v)
    ELSE IF \E i \in 1..Len(token_id) : token_id[i] > m.n_token THEN Raised
    ELSE StyleEmb(m, bs, TokenScores(scores, token_id), v)

\* lines 577 to 589, q, k and v being split into heads
AttendHeads(m, bs, token_id, q, k, v) ==
    IF q = Raised \/ k = Raised \/ v = Raised THEN Raised
    ELSE ScoredStyle(m, bs, token_id,
                     Softmax3(BmmLogits(HeadsFirst(q), HeadsFirstTransposed(k)),
                              m.token_size),
                     HeadsFirst(v))

\* StyleAttention.forward(inputs, token_id)
StyleForward(m, inputs, token_id) ==
    AttendHeads(m, Len(inputs), token_id,
                SplitHeads(m, Len(inputs), QueryOf(m, inputs)),
                SplitHeads(m, Len(inputs), KeyOf(m, Len(inputs))),
                SplitHeads(m, Len(inputs), ValueOf(m, Len(inputs))))

\* a matrix of rows x cols integers
Matrix(rows, cols, e(_, _)) ==
    AsSeq([r \in 1..rows |-> AsSeq([c \in 1..cols |-> e(r, c)])])

\* the module StyleAttention(gru_hidden, gst_size, n_style_token,
\* n_style_attn_head) with token_size = gst_size // n_head, its tokens
\* drawn by seed and its layers holding one choice of weights
StyleModule(gru_hidden, gst_size, n_style_token, n_style_attn_head, token_size, seed) ==
    [input_size |-> gru_hidden,
     output_size |-> gst_size,
     n_token |-> n_style_token,
     n_head |-> n_style_attn_head,
     token_size |-> token_size,
     tokens |-> Matrix(n_style_token, token_size,
                       LAMBDA n, c : ((n + c + seed) % 3) - 1),
     q_linear |-> [weight |-> Matrix(gst_size, gru_hidden, LAMBDA g, d : g + d - 1),
                   bias |-> AsSeq([g \in 1..gst_size |-> g - 1])],
     k_linear |-> [weight |-> Matrix(gst_size, token_size, LAMBDA g, c : g - c),
                   bias |-> AsSeq([g \in 1..gst_size |-> 1])],
     v_linear |-> [weight |-> Matrix(gst_size, token_size, LAMBDA g, c : 2 * g + c),
                   bias |-> AsSeq([g \in 1..gst_size |-> g])]]

TokenSeeds == {0, 1, 2}

StyleModules ==
    {StyleModule(D, G, N, H, G \div H, seed) :
        D \in 1..MaxHidden, G \in 1..MaxGst, N \in 1..MaxTokens,
        H \in 1..MaxHeads, seed \in TokenSeeds}

\* the inputs of shape (bs, D)
StyleInput(bs, D, seed) == Matrix(bs, D, LAMBDA b, d : b + 2 * d + seed)

StyleInputs(bs, D) == {StyleInput(bs, D, seed) : seed \in {0, 1}}

\* None, one index, valid or one past the last token, or a tensor of bs
\* valid indices
TokenIds(bs, N) ==
    {NoToken} \cup {<<j>> : j \in 1..(N + 1)}
        \cup {AsSeq(ids) : ids \in [1..bs -> 1..N]}

StyleArgs(m) ==
    UNION {{[inputs |-> x, token_id |-> id] :
                x \in StyleInputs(bs, m.input_size), id \in TokenIds(bs, m.n_token)} :
           bs \in 1..MaxBatch}

InitSA ==
    /\ WSEIdle
    /\ InvIdle
    /\ WNIdle
    /\ AttIdle
    /\ PCIdle
    /\ sa \in {m \in StyleModules : m.token_size > 0}
    /\ sa_in \in StyleArgs(sa)
    /\ sa_ret = NoCall

\* forward(inputs, token_id) applied to the arguments drawn
SAForward ==
    /\ sa_ret = NoCall
    /\ sa_ret' = [op |-> "forward",
                  out |-> Returned(StyleForward(sa, sa_in.inputs, sa_in.token_id))]
    /\ UNCHANGED <<sa, sa_in>>
    /\ UNCHANGED notSAVars

NextSA == SAForward

SpecSA == InitSA /\ [][NextSA]_vars

\* the call of forward was given one valid token index, on a module whose
\* gst_size the heads divide
OneTokenCall ==
    /\ sa_ret # NoCall
    /\ Len(sa_in.token_id) = 1
    /\ sa_in.token_id[1] \in 1..sa.n_token
    /\ sa.output_size = sa.n_head * sa.token_size

\* the value projection of tanh(tokens[token_id])
TokenValue == LinearPair(sa.v_linear, TanhRow(sa.tokens[sa_in.token_id[1]]))

\* C10: forward with one valid token index returns a style_emb of shape
\* (batch, n_head * token_size) whose every row is the concatenation, over
\* the heads, of the head's part of the value projection of
\* tanh(tokens[token_id]), and which is the same for every other inputs of
\* the same batch size.
C10_TokenStyle ==
    OneTokenCall
      => /\ sa_ret.out # RuntimeError
         /\ sa_ret.out.value[1] = <<Len(sa_in.inputs), sa.n_head * sa.token_size>>
         /\ \A b \in 1..Len(sa_in.inputs) : \A h \in 1..sa.n_head :
              \A c \in 1..sa.token_size :
                sa_ret.out.value[2][(b - 1) * sa.n_head * sa.token_size
                                      + (h - 1) * sa.token_size + c]
                  = TokenValue[(h - 1) * sa.token_size + c]
         /\ \A other \in StyleInputs(Len(sa_in.inputs), sa.input_size) :
              Returned(StyleForward(sa, other, sa_in.token_id)) = sa_ret.out

\* two heads of token_size 2, a batch of two and the second of two tokens,
\* tokens[1] = (-1, 0): both rows are v_linear(tanh(tokens[1]))
C10_Witness ==
    /\ OneTokenCall
    /\ sa.n_head = 2
    /\ sa.token_size = 2
    /\ sa.tokens = <<<<1, -1>>, <<-1, 0>>>>
    /\ sa_in.inputs = <<<<3>>, <<4>>>>
    /\ sa_in.token_id = <<2>>
    /\ sa_ret.out
         = Tensor(<<<<2, 4>>,
                    <<[c |-> 1, t |-> -3], [c |-> 2, t |-> -5],
                      [c |-> 3, t |-> -7], [c |-> 4, t |-> -9],
                      [c |-> 1, t |-> -3], [c |-> 2, t |-> -5],
                      [c |-> 3, t |-> -7], [c |-> 4, t |-> -9]>>>>)

-----------------------------------------------------------------------------
(* WeightedSpeakerEmbedding                                                *)
(*                                                                         *)
(* The table pretrained_embedding.weight has integer entries.  An entry of *)
(* embedding_weight is kept as the integer k of its value 1 + k * ln 2:    *)
(* torch.ones gives k = 0, and softmax, which a common shift of its        *)
(* arguments leaves alone, gives the weights 2^k / (sum of 2^k), exact     *)
(* rationals.  A row of the result is [n, d], its entries n[j] / d.        *)

\* the rows pretrained_embedding.weight whatever speaker_list is
StoredRowsAll(table, speaker_list) == table

\* pretrained_embedding.weight[speaker_list] for a speaker_list that is not
\* empty, pretrained_embedding.weight otherwise; indices count from 1
StoredRows(table, speaker_list) ==
    IF Len(speaker_list) > 0
    THEN AsSeq([i \in 1..Len(speaker_list) |-> table[speaker_list[i]]])
    ELSE table

\* the module after __init__, stored being self.pretrained_embedding
SpeakerModule(table, speaker_list, stored) ==
    [table |-> table,
     speaker_list |-> speaker_list,
     pretrained_embedding |-> stored,
     num_embeddings |-> Len(stored)]

\* WeightedSpeakerEmbedding(pretrained_embedding, speaker_list)
WeightedSpeakerEmbedding(table, speaker_list) ==
    SpeakerModule(table, speaker_list, StoredRows(table, speaker_list))

\* torch.ones(1, num_embeddings)
OnesWeight(m) == <<AsSeq([i \in 1..m.num_embeddings |-> 0])>>

\* self.embedding_weight.repeat(n, 1)
Repeat(weight, n) == AsSeq([b \in 1..n |-> weight[1]])

\* the rows of weight as arguments of softmax
AsEnergies(weight) ==
    AsSeq([b \in 1..Len(weight) |->
              AsSeq([i \in 1..Len(weight[b]) |-> Fin(weight[b][i])])])

\* weight @ self.pretrained_embedding
MatMulRows(weight, stored) ==
    AsSeq([b \in 1..Len(weight) |-> ContextRow(weight[b], stored)])

\* WeightedSpeakerEmbedding.forward(speaker)
SpeakerForward(m, weight, speaker) ==
    MatMulRows(Softmax(AsEnergies(Repeat(weight, Len(speaker)))),
               m.pretrained_embedding)

\* a table of the given number of rows, two entries a row
EmbeddingTable(rows) ==
    AsSeq([r \in 1..rows |-> <<r * r, 3 - r>>])

SpeakerLists(rows) ==
    UNION {{AsSeq(l) : l \in [1..n -> 1..rows]} : n \in 0..MaxListLen}

\* the speaker tensors of length n, of the ids 0 and 1
SpeakerTensors(n) == {AsSeq(ids) : ids \in [1..n -> {0, 1}]}

SpeakerModules ==
    UNION {{WeightedSpeakerEmbedding(EmbeddingTable(rows), l) :
                l \in SpeakerLists(rows)} : rows \in 1..MaxSpeakers}

InitWSE ==
    /\ InvIdle
    /\ WNIdle
    /\ AttIdle
    /\ PCIdle
    /\ SAIdle
    /\ wse \in SpeakerModules
    /\ embedding_weight = OnesWeight(wse)
    /\ wse_phase = "idle"
    /\ wse_in = None
    /\ wse_ret = NoCall

\* forward(speaker)
SpeakerCall(speaker) ==
    /\ wse_phase = "idle"
    /\ wse_phase' = "returned"
    /\ wse_in' = speaker
    /\ wse_ret' = [op |-> "forward",
                   out |-> Returned(SpeakerForward(wse, embedding_weight, speaker))]
    /\ UNCHANGED <<wse, embedding_weight>>
    /\ UNCHANGED notWSEVars

\* a training step raises entry i of the parameter embedding_weight by ln 2
TrainWeight(i) ==
    /\ wse_phase = "idle"
    /\ i <= wse.num_embeddings
    /\ embedding_weight[1][i] < MaxUpdates
    /\ embedding_weight' =
         <<[embedding_weight[1] EXCEPT ![i] = embedding_weight[1][i] + 1]>>
    /\ UNCHANGED <<wse, wse_phase, wse_in, wse_ret>>
    /\ UNCHANGED notWSEVars

\* the caller takes the result; the module is ready for the next call
SpeakerDiscard ==
    /\ wse_phase = "returned"
    /\ wse_phase' = "idle"
    /\ wse_in' = None
    /\ wse_ret' = NoCall
    /\ UNCHANGED <<wse, embedding_weight>>
    /\ UNCHANGED notWSEVars

NextWSE ==
    \/ \E n \in 1..MaxBatch : \E speaker \in SpeakerTensors(n) : SpeakerCall(speaker)
    \/ \E i \in 1..MaxSpeakers : TrainWeight(i)
    \/ SpeakerDiscard

SpecWSE == InitWSE /\ [][NextWSE]_vars

\* the rows the claim names: those speaker_list selects from the table
\* when it is not empty, all rows of the table otherwise
ClaimedRows ==
    IF wse.speaker_list # <<>>
    THEN [i \in 1..Len(wse.speaker_list) |-> wse.table[wse.speaker_list[i]]]
    ELSE wse.table

\* the sum of exp over the entries of embedding_weight, less the common
\* factor e
ExpSum == SumSeq([i \in 1..Len(embedding_weight[1]) |-> Pow(2, embedding_weight[1][i])])

\* C11: forward(speaker) returns len(speaker) rows that are all the same,
\* each the combination of the stored rows (those speaker_list selects, or
\* all rows when it is empty) under the softmax weights of
\* embedding_weight, which are not negative and sum to 1; and it returns
\* the same for every other speaker tensor of that length.
C11_SpeakerIndependent ==
    (wse_phase = "returned")
      => /\ wse_ret.out # RuntimeError
         /\ Len(embedding_weight[1]) = Len(ClaimedRows)
         /\ \A i \in 1..Len(ClaimedRows) : Pow(2, embedding_weight[1][i]) >= 0
         /\ Len(wse_ret.out.value) = Len(wse_in)
         /\ \A b \in 1..Len(wse_in) :
              /\ wse_ret.out.value[b] = wse_ret.out.value[1]
              /\ wse_ret.out.value[b].d > 0
              /\ Len(wse_ret.out.value[b].n) = Len(wse.table[1])
              /\ \A j \in 1..Len(wse.table[1]) :
                   wse_ret.out.value[b].n[j] * ExpSum
                     = wse_ret.out.value[b].d
                         * SumSeq([i \in 1..Len(ClaimedRows) |->
                                      Pow(2, embedding_weight[1][i])
                                        * ClaimedRows[i][j]])
         /\ \A other \in SpeakerTensors(Len(wse_in)) :
              Returned(SpeakerForward(wse, embedding_weight, other)) = wse_ret.out

\* speaker_list (3, 1) of a table of three rows, the first weight raised
\* by ln 2: both rows are 2/3 of row 3 plus 1/3 of row 1
C11_Witness ==
    /\ wse_phase = "returned"
    /\ wse.table = <<<<1, 2>>, <<4, 1>>, <<9, 0>>>>
    /\ wse.speaker_list = <<3, 1>>
    /\ embedding_weight = <<<<1, 0>>>>
    /\ wse_in = <<1, 0>>
    /\ wse_ret.out = Tensor(<<[n |-> <<19, 2>>, d |-> 3], [n |-> <<19, 2>>, d |-> 3]>>)

=============================================================================
